---- MODULE Spec2Model ----
(***************************************************************************)
(* Model of the tensor core (src/tensor/creation.rs), the broadcasting     *)
(* engine (src/tensor/broadcast.rs) and the ordering, scalar_ops! and ops! *)
(* of src/tensor/mod.rs.                                                   *)
(*                                                                         *)
(* A caller holds one tensor `t` (absent at start) and repeatedly calls    *)
(* one of the library's operations on it; binary operations take their     *)
(* second operand from the set of tensors the two constructors can build.  *)
(* `op` and `args` record the call in progress and its inputs (`args.self` *)
(* is the receiver as it was before the call), `res` what the call         *)
(* returned; Drop ends the statement and discards them.  A Rust panic is   *)
(* the outcome "panic"; it ends the run.                                   *)
(*                                                                         *)
(* `inst` is the operation instance of an ops! invocation in progress       *)
(* (absent otherwise), with the position the macro block has reached.      *)
(*                                                                         *)
(* Option<T> is modelled as a sequence: <<>> is None, <<v>> is Some(v).    *)
(* usize arithmetic is modelled without overflow: all values stay far      *)
(* below 2^64 within the bounds.                                           *)
(***************************************************************************)
EXTENDS Integers, Sequences, FiniteSets, TLC

VARIABLES t, op, args, res, inst

vars == <<t, op, args, res, inst>>

\* ---------------------------------------------------------------- bounds
MaxDim  == 2    \* axis sizes and index components range over 0..MaxDim
MaxRank == 2    \* shapes and index vectors have at most MaxRank entries
MaxLen  == 2    \* a constructor is handed at most MaxLen elements in all
MaxOut  == 4    \* a broadcast result has at most MaxOut elements

\* element type T: two distinguishable values are enough to tell cells apart
Elem == {0, 1}

\* binary element functions handed to broadcast_op
Fns == {"fst", "snd", "max"}

SeqsUpTo(S, n) == UNION {[1..k -> S] : k \in 0..n}

Shapes   == SeqsUpTo(0..MaxDim, MaxRank)
Indices  == SeqsUpTo(0..MaxDim, MaxRank)
Datas    == SeqsUpTo(Elem, MaxLen)

\* ---------------------------------------------------------------- helpers
None == <<>>

Some(v) == <<v>>

Min2(x, y) == IF x <= y THEN x ELSE y

Max2(x, y) == IF x >= y THEN x ELSE y

ApplyF(f, x, y) ==
    CASE f = "fst" -> x
      [] f = "snd" -> y
      [] f = "max" -> Max2(x, y)

\* shape.iter().product()
RECURSIVE Product(_)
Product(s) == IF s = <<>> THEN 1 ELSE Head(s) * Product(Tail(s))

\* data.into_iter().flatten().collect()
RECURSIVE Flatten(_)
Flatten(rows) == IF rows = <<>> THEN <<>> ELSE Head(rows) \o Flatten(Tail(rows))

\* nested rows handed to new(): at most MaxDim rows of at most MaxDim elements
RowLists ==
    {r \in SeqsUpTo(SeqsUpTo(Elem, MaxDim), MaxDim) : Len(Flatten(r)) <= MaxLen}

\* the struct literal of both constructors
Tensor(data, shape) ==
    [data |-> data, shape |-> shape, requires_grad |-> FALSE,
     power |-> None, topk |-> None, matmax |-> None]

Ok(v)  == [kind |-> "ok", val |-> v]

Err(e) == [kind |-> "err", val |-> e]

Panic  == [kind |-> "panic", val |-> None]

OptSome(v) == [kind |-> "some", val |-> v]

OptNone == [kind |-> "none", val |-> None]

InvalidDataLength(expected, got) ==
    [error |-> "InvalidDataLength", expected |-> expected, got |-> got]

InvalidShape(expected, got) ==
    [error |-> "InvalidShape", expected |-> expected, got |-> got]

\* ---------------------------------------------------------------- creation.rs
\* data[0] panics on an empty outer vector
new(rows) ==
    IF Len(rows) = 0
    THEN Panic
    ELSE Ok(Tensor(Flatten(rows), <<Len(rows), Len(rows[1])>>))

\* mutant of from_vec: only too-short data is rejected
from_vec_short_only(data, shape) ==
    LET expected_len == Product(shape)
    IN  IF Len(data) < expected_len
        THEN Err(InvalidDataLength(expected_len, Len(data)))
        ELSE Ok(Tensor(data, shape))

from_vec(data, shape) ==
    LET expected_len == Product(shape)
    IN  IF Len(data) # expected_len
        THEN Err(InvalidDataLength(expected_len, Len(data)))
        ELSE Ok(Tensor(data, shape))

\* indices.iter().zip(&self.shape).fold(0, |acc, (&i, &dim)| acc * dim + i)
RECURSIVE IndexFold(_, _, _, _)
IndexFold(acc, indices, shape, k) ==
    IF k > Min2(Len(indices), Len(shape))
    THEN acc
    ELSE IndexFold(acc * shape[k] + indices[k], indices, shape, k + 1)

\* mutant of index: the strides are taken from the leading axes (column-major)
index_column_major(self, indices) ==
    IF Len(indices) # Len(self.shape)
    THEN OptNone
    ELSE OptSome(IndexFold(0, [k \in 1..Len(indices) |-> indices[Len(indices) + 1 - k]],
                           [k \in 1..Len(indices) |-> self.shape[Len(indices) + 1 - k]], 1))

index(self, indices) ==
    IF Len(indices) # Len(self.shape)
    THEN OptNone
    ELSE OptSome(IndexFold(0, indices, self.shape, 1))

\* self.data.get(self.index(indices)?)
get(self, indices) ==
    LET i == index(self, indices)
    IN  IF i.kind = "none"
        THEN OptNone
        ELSE IF i.val < Len(self.data)
             THEN OptSome(self.data[i.val + 1])
             ELSE OptNone

set_power(self, exponent) == [self EXCEPT !.power = Some(exponent)]

set_topk(self, k, sorted) == [self EXCEPT !.topk = Some(<<k, sorted>>)]

\* mutant of set_matmax: the topk slot is cleared along the way
set_matmax_clears_topk(self, dim, keepdim) ==
    [self EXCEPT !.matmax = Some(<<dim, keepdim>>), !.topk = None]

set_matmax(self, dim, keepdim) == [self EXCEPT !.matmax = Some(<<dim, keepdim>>)]

requires_grad(self, requires) == [self EXCEPT !.requires_grad = requires]

\* mutant of chk_shape: expected and got are swapped in the error
chk_shape_swapped(self, other) ==
    IF self.shape # other.shape
    THEN Err(InvalidShape(other.shape, self.shape))
    ELSE Ok(None)

chk_shape(self, other) ==
    IF self.shape # other.shape
    THEN Err(InvalidShape(self.shape, other.shape))
    ELSE Ok(None)

\* ---------------------------------------------------------------- broadcast.rs
can_broadcast(self, other) ==
    IF Len(self.shape) # Len(other.shape)
    THEN FALSE
    ELSE \A i \in 1..Len(self.shape) :
            \/ self.shape[i] = other.shape[i]
            \/ self.shape[i] = 1
            \/ other.shape[i] = 1

\* mutant of broadcast_shape: the left size is kept unless it is 1
broadcast_shape_left(self, other) ==
    [i \in 1..Min2(Len(self.shape), Len(other.shape)) |->
        IF self.shape[i] = 1 THEN other.shape[i] ELSE self.shape[i]]

\* zip stops at the shorter of the two shapes
broadcast_shape(self, other) ==
    [i \in 1..Min2(Len(self.shape), Len(other.shape)) |->
        Max2(self.shape[i], other.shape[i])]

\* the for loop of calculate_broadcast_indices; i counts from 0 as in the source
RECURSIVE CbiLoop(_, _, _, _, _, _, _)
CbiLoop(self, other, shape, i, remaining, self_idx, other_idx) ==
    IF i >= Min2(Len(shape), Min2(Len(self.shape), Len(other.shape)))
    THEN <<self_idx, other_idx>>
    ELSE LET stride    == Max2(Product(SubSeq(shape, i + 2, Len(shape))), 1)
             pos       == remaining \div stride
             self_dim  == self.shape[i + 1]
             other_dim == other.shape[i + 1]
         IN  CbiLoop(self, other, shape, i + 1, remaining % stride,
                     self_idx * self_dim + (IF self_dim = 1 THEN 0 ELSE pos),
                     other_idx * other_dim + (IF other_dim = 1 THEN 0 ELSE pos))

calculate_broadcast_indices(self, other, idx, shape) ==
    Some(CbiLoop(self, other, shape, 0, idx, 0, 0))

\* the for loop shared by broadcast_op and into_broadcast_op: `?` returns None,
\* an out-of-range self.data[..] / other.data[..] panics
RECURSIVE BroadcastLoop(_, _, _, _, _, _, _)
BroadcastLoop(self, other, f, shape, size, idx, data) ==
    IF idx >= size
    THEN OptSome(Tensor(data, shape))
    ELSE LET r == calculate_broadcast_indices(self, other, idx, shape)
         IN  IF r = None
             THEN OptNone
             ELSE IF r[1][1] >= Len(self.data) \/ r[1][2] >= Len(other.data)
                  THEN Panic
                  ELSE BroadcastLoop(self, other, f, shape, size, idx + 1,
                          Append(data, ApplyF(f, self.data[r[1][1] + 1],
                                                 other.data[r[1][2] + 1])))

broadcast_op(self, other, f) ==
    LET shape == broadcast_shape(self, other)
    IN  BroadcastLoop(self, other, f, shape, Product(shape), 0, <<>>)

into_broadcast_op(self, other, f) ==
    LET shape == broadcast_shape(self, other)
    IN  BroadcastLoop(self, other, f, shape, Product(shape), 0, <<>>)

\* ---------------------------------------------------------------- mod.rs
\* impl PartialEq for Tensor<f32>
eq(self, other) == self.data = other.data /\ self.shape = other.shape

\* Vec::partial_cmp: lexicographic, a proper prefix is Less (the element
\* values of the model are all comparable, NaN is not among them)
RECURSIVE VecCmp(_, _)
VecCmp(a, b) ==
    IF a = <<>> /\ b = <<>> THEN "Equal"
    ELSE IF a = <<>> THEN "Less"
    ELSE IF b = <<>> THEN "Greater"
    ELSE IF Head(a) < Head(b) THEN "Less"
    ELSE IF Head(a) > Head(b) THEN "Greater"
    ELSE VecCmp(Tail(a), Tail(b))

\* impl PartialOrd for Tensor<f32>: only the data are compared
partial_cmp(self, other) == Some(VecCmp(self.data, other.data))

\* impl Ord for Tensor<f32>
cmp(self, other) ==
    LET p == partial_cmp(self, other)
    IN  IF p = None THEN "Equal" ELSE p[1]

\* scalar_ops!: the operator tags and the scalars handed to the macro
ScalarOps == {"Add", "Sub", "Mul", "Div", "buS", "viD"}

Scalars == {0, 1, 2}

\* f32 division: the quotient is kept as the pair <<dividend, divisor>>; a
\* zero divisor gives an infinity or NaN under IEEE-754, never a panic
Quot(x, y) == <<x, y>>

\* the closure of each arm of scalar_ops!
ScalarExpr(sop, x, s) ==
    CASE sop = "Add" -> x + s
      [] sop = "Sub" -> x - s
      [] sop = "Mul" -> x * s
      [] sop = "Div" -> Quot(x, s)
      [] sop = "buS" -> s - x
      [] sop = "viD" -> Quot(s, x)

\* Tensor::from_vec(tensor.data().iter().map(..).collect(), &tensor.shape())
scalar_ops(sop, tensor, s) ==
    from_vec([i \in 1..Len(tensor.data) |-> ScalarExpr(sop, tensor.data[i], s)],
             tensor.shape)

\* ---------------------------------------------------------------- inputs
\* every tensor the two constructors build within the bounds
Tensors ==
    {from_vec(d, s).val : <<d, s>> \in
        {p \in Datas \X Shapes : from_vec(p[1], p[2]).kind = "ok"}}
    \cup {new(r).val : r \in {x \in RowLists : new(x).kind = "ok"}}

\* ---------------------------------------------------------------- actions
\* between two calls: no call in progress, no result held
Idle == op = "idle"

Init ==
    /\ t = None
    /\ op = "idle"
    /\ args = None
    /\ res = None
    /\ inst = None

\* a constructor binds a fresh variable: the caller constructs while it holds
\* no tensor (the constructors do not read one)
DoNew ==
    \E rows \in RowLists :
        /\ Idle
        /\ t = None
        /\ op' = "new"
        /\ args' = [self |-> t, rows |-> rows]
        /\ res' = new(rows)
        /\ t' = IF res'.kind = "ok" THEN Some(res'.val) ELSE t
        /\ inst' = inst

DoFromVec ==
    \E data \in Datas, shape \in Shapes :
        /\ Idle
        /\ t = None
        /\ op' = "from_vec"
        /\ args' = [self |-> t, data |-> data, shape |-> shape]
        /\ res' = from_vec(data, shape)
        /\ t' = IF res'.kind = "ok" THEN Some(res'.val) ELSE t
        /\ inst' = inst

DoIndex ==
    \E indices \in Indices :
        /\ Idle
        /\ t # None
        /\ op' = "index"
        /\ args' = [self |-> t, indices |-> indices]
        /\ res' = index(t[1], indices)
        /\ t' = t
        /\ inst' = inst

DoGet ==
    \E indices \in Indices :
        /\ Idle
        /\ t # None
        /\ op' = "get"
        /\ args' = [self |-> t, indices |-> indices]
        /\ res' = get(t[1], indices)
        /\ t' = t
        /\ inst' = inst

DoChkShape ==
    \E other \in Tensors :
        /\ Idle
        /\ t # None
        /\ op' = "chk_shape"
        /\ args' = [self |-> t, other |-> other]
        /\ res' = chk_shape(t[1], other)
        /\ t' = t
        /\ inst' = inst

DoCanBroadcast ==
    \E other \in Tensors :
        /\ Idle
        /\ t # None
        /\ op' = "can_broadcast"
        /\ args' = [self |-> t, other |-> other]
        /\ res' = Ok(can_broadcast(t[1], other))
        /\ t' = t
        /\ inst' = inst

DoBroadcastShape ==
    \E other \in Tensors :
        /\ Idle
        /\ t # None
        /\ op' = "broadcast_shape"
        /\ args' = [self |-> t, other |-> other]
        /\ res' = Ok(broadcast_shape(t[1], other))
        /\ t' = t
        /\ inst' = inst

\* the caller keeps the result as its tensor; results of more than MaxOut
\* elements are outside the model
DoBroadcastOp ==
    \E other \in Tensors, f \in Fns :
        /\ Idle
        /\ t # None
        /\ Product(broadcast_shape(t[1], other)) <= MaxOut
        /\ op' = "broadcast_op"
        /\ args' = [self |-> t, other |-> other, f |-> f]
        /\ res' = broadcast_op(t[1], other, f)
        /\ t' = IF res'.kind = "some" THEN Some(res'.val) ELSE t
        /\ inst' = inst

\* self and other are moved into the call; the result replaces them
DoIntoBroadcastOp ==
    \E other \in Tensors, f \in Fns :
        /\ Idle
        /\ t # None
        /\ Product(broadcast_shape(t[1], other)) <= MaxOut
        /\ op' = "into_broadcast_op"
        /\ args' = [self |-> t, other |-> other, f |-> f]
        /\ res' = into_broadcast_op(t[1], other, f)
        /\ t' = IF res'.kind = "some" THEN Some(res'.val) ELSE None
        /\ inst' = inst

DoEq ==
    \E other \in Tensors :
        /\ Idle
        /\ t # None
        /\ op' = "eq"
        /\ args' = [self |-> t, other |-> other]
        /\ res' = Ok(eq(t[1], other))
        /\ t' = t
        /\ inst' = inst

DoCmp ==
    \E other \in Tensors :
        /\ Idle
        /\ t # None
        /\ op' = "cmp"
        /\ args' = [self |-> t, other |-> other]
        /\ res' = Ok(cmp(t[1], other))
        /\ t' = t
        /\ inst' = inst

\* the macro borrows the tensor and returns a new one
DoScalarOp ==
    \E sop \in ScalarOps, s \in Scalars :
        /\ Idle
        /\ t # None
        /\ op' = "scalar_ops"
        /\ args' = [self |-> t, sop |-> sop, scalar |-> s]
        /\ res' = scalar_ops(sop, t[1], s)
        /\ t' = t
        /\ inst' = inst

\* arguments handed to the setters
Exponents == {2, 3}

TopkKs == {1}

MatmaxDims == {None, Some(0)}

DoSetPower ==
    \E exponent \in Exponents :
        /\ Idle
        /\ t # None
        /\ op' = "set_power"
        /\ args' = [self |-> t, exponent |-> exponent]
        /\ res' = Ok(None)
        /\ t' = Some(set_power(t[1], exponent))
        /\ inst' = inst

DoSetTopk ==
    \E k \in TopkKs, sorted \in BOOLEAN :
        /\ Idle
        /\ t # None
        /\ op' = "set_topk"
        /\ args' = [self |-> t, k |-> k, sorted |-> sorted]
        /\ res' = Ok(None)
        /\ t' = Some(set_topk(t[1], k, sorted))
        /\ inst' = inst

DoSetMatmax ==
    \E dim \in MatmaxDims, keepdim \in BOOLEAN :
        /\ Idle
        /\ t # None
        /\ op' = "set_matmax"
        /\ args' = [self |-> t, dim |-> dim, keepdim |-> keepdim]
        /\ res' = Ok(None)
        /\ t' = Some(set_matmax(t[1], dim, keepdim))
        /\ inst' = inst

DoRequiresGrad ==
    \E requires \in BOOLEAN :
        /\ Idle
        /\ t # None
        /\ op' = "requires_grad"
        /\ args' = [self |-> t, requires |-> requires]
        /\ res' = Ok(None)
        /\ t' = Some(requires_grad(t[1], requires))
        /\ inst' = inst

\* ---------------------------------------------------------------- ops!
UnaryKinds == {"Exp", "Neg", "Sqrt", "Abs", "Square", "Log"}

BinaryKinds == {"Add", "Sub", "Mul", "Div", "Matmul"}

ParamKinds == {"Pow", "Topk", "Matmax"}

\* the operator structs: operands and, for Pow / Topk / Matmax, the public
\* Option parameter (the backend handle carries no state of interest)
OpStruct(kind, first, second) ==
    [kind |-> kind, first |-> first, second |-> second,
     power |-> None, topk |-> None, matmax |-> None]

\* Function::new binds the operands; it takes no operator parameter
FunctionNew(kind, first, second) == Ok(OpStruct(kind, first, second))

\* the operand pairs Function::new accepts; a refused construction returns
\* no instance and unwrap() panics
NewSucceeds(kind, first, second) ==
    CASE kind = "Matmul" ->
            /\ Len(first.shape) = 2
            /\ Len(second.shape) = 2
            /\ first.shape[2] = second.shape[1]
      [] OTHER -> can_broadcast(first, second)

\* Function::forward hands the work to the backend and returns its output,
\* which is not modelled
FunctionForward(o) == [kind |-> "forwarded", val |-> None]

\* mutant of ops_assign: the parameter is not stored
ops_assign_skipped(o, param) == o

\* op.power = Some($exponent) / op.topk = Some(($k, $sorted)) /
\* op.matmax = Some(($dim, $keepdim))
ops_assign(o, param) ==
    CASE o.kind = "Pow"    -> [o EXCEPT !.power = Some(param)]
      [] o.kind = "Topk"   -> [o EXCEPT !.topk = Some(param)]
      [] o.kind = "Matmax" -> [o EXCEPT !.matmax = Some(param)]

\* the second operand and the parameters an ops! invocation is written with
OpsSeconds(kind, first) ==
    IF kind \in BinaryKinds
    THEN {Some(x) : x \in {y \in Tensors : NewSucceeds(kind, first, y)}}
    ELSE {None}

OpsParams(kind) ==
    CASE kind = "Pow"    -> Exponents
      [] kind = "Topk"   -> TopkKs \X BOOLEAN
      [] kind = "Matmax" -> MatmaxDims \X BOOLEAN
      [] OTHER           -> {None}

\* first statement of every arm: Kind::new($tensor.deref(), ..).unwrap()
DoOpsNew ==
    /\ Idle
    /\ t # None
    /\ inst = None
    /\ \E kind \in UnaryKinds \cup BinaryKinds \cup ParamKinds :
        \E second \in OpsSeconds(kind, t[1]) :
            \E param \in OpsParams(kind) :
                /\ op' = "ops"
                /\ args' = [self |-> t, kind |-> kind, second |-> second,
                            param |-> param]
                /\ res' = FunctionNew(kind, t[1], second)
                /\ inst' = Some([obj |-> res'.val, pc |-> "new", forwards |-> 0])
                /\ t' = t

\* second statement of the Pow / Topk / Matmax arms
DoOpsAssign ==
    /\ op = "ops"
    /\ inst # None
    /\ inst[1].pc = "new"
    /\ inst[1].obj.kind \in ParamKinds
    /\ inst' = Some([inst[1] EXCEPT !.obj = ops_assign(inst[1].obj, args.param),
                                    !.pc = "assigned"])
    /\ UNCHANGED <<t, op, args, res>>

\* last statement of every arm: .forward()
DoOpsForward ==
    /\ op = "ops"
    /\ inst # None
    /\ inst[1].pc = (IF inst[1].obj.kind \in ParamKinds THEN "assigned" ELSE "new")
    /\ res' = FunctionForward(inst[1].obj)
    /\ inst' = Some([inst[1] EXCEPT !.pc = "forwarded",
                                    !.forwards = inst[1].forwards + 1])
    /\ UNCHANGED <<t, op, args>>

\* end of the calling statement: the returned value and the operation instance
\* of an ops! block go out of scope.  A panic unwinds instead, so nothing
\* follows it.
Drop ==
    /\ op # "idle"
    /\ res.kind # "panic"
    /\ inst # None => inst[1].pc = "forwarded"
    /\ op' = "idle"
    /\ args' = None
    /\ res' = None
    /\ t' = t
    /\ inst' = None

Next ==
    \/ DoNew
    \/ DoFromVec
    \/ DoIndex
    \/ DoGet
    \/ DoChkShape
    \/ DoCanBroadcast
    \/ DoBroadcastShape
    \/ DoBroadcastOp
    \/ DoIntoBroadcastOp
    \/ DoEq
    \/ DoCmp
    \/ DoScalarOp
    \/ Drop

Spec == Init /\ [][Next]_vars

\* construction followed by any sequence of setter calls
NextSet ==
    \/ DoNew
    \/ DoFromVec
    \/ DoSetPower
    \/ DoSetTopk
    \/ DoSetMatmax
    \/ DoRequiresGrad
    \/ Drop

SpecSet == Init /\ [][NextSet]_vars

\* construction followed by ops! invocations
NextOps ==
    \/ DoNew
    \/ DoFromVec
    \/ DoOpsNew
    \/ DoOpsAssign
    \/ DoOpsForward
    \/ Drop

SpecOps == Init /\ [][NextOps]_vars

\* ---------------------------------------------------------------- properties
\* the tensor of the call in progress, before the call
Self == args.self[1]

Consistent(x) == Len(x.data) = Product(x.shape)

Ragged(rows) == \E i \in 1..Len(rows) : Len(rows[i]) # Len(rows[1])

\* C1: every tensor the caller holds has data.len() == product(shape), and
\* new() called with rows of unequal length fails instead of returning a tensor.
C1_ShapeSizeInvariant ==
    /\ t # None => Consistent(t[1])
    /\ (op = "new" /\ Ragged(args.rows)) => res.kind = "err"

\* row-major offset of a multi-index c in a tensor of shape s, where an axis of
\* size 1 is read at coordinate 0
RECURSIVE OperandOffset(_, _, _)
OperandOffset(c, s, i) ==
    IF i > Len(s)
    THEN 0
    ELSE (IF s[i] = 1 THEN 0 ELSE c[i]) * Product(SubSeq(s, i + 1, Len(s)))
         + OperandOffset(c, s, i + 1)

\* row-major offset of a multi-index c in shape s: sum of c[i] * product(s[i+1..])
RECURSIVE RowMajorOffset(_, _, _)
RowMajorOffset(c, s, i) ==
    IF i > Len(s)
    THEN 0
    ELSE c[i] * Product(SubSeq(s, i + 1, Len(s))) + RowMajorOffset(c, s, i + 1)

\* all multi-indices of a shape
MultiIndices(s) ==
    {c \in [1..Len(s) -> 0..MaxDim + 1] : \A i \in 1..Len(s) : c[i] < s[i]}

\* C2: for broadcast-compatible (and size-consistent) operands broadcast_op
\* returns a tensor of shape broadcast_shape(a, b) whose element at every output
\* multi-index c is f(a[ca], b[cb]), ca/cb being c with the operand's size-1
\* axes read at 0 and offsets taken with the operand's own row-major strides.
C2_BroadcastOpElements ==
    (/\ op = "broadcast_op"
     /\ can_broadcast(Self, args.other)
     /\ Consistent(Self)
     /\ Consistent(args.other))
    => /\ res.kind = "some"
       /\ res.val.shape = broadcast_shape(Self, args.other)
       /\ Len(res.val.data) = Product(res.val.shape)
       /\ \A c \in MultiIndices(res.val.shape) :
             res.val.data[RowMajorOffset(c, res.val.shape, 1) + 1] =
                ApplyF(args.f,
                       Self.data[OperandOffset(c, Self.shape, 1) + 1],
                       args.other.data[OperandOffset(c, args.other.shape, 1) + 1])

\* C3: broadcast_op / into_broadcast_op on operands of different rank return
\* the explicit failure (None): no panic, no tensor.
C3_RankMismatchFails ==
    (/\ op \in {"broadcast_op", "into_broadcast_op"}
     /\ Len(Self.shape) # Len(args.other.shape))
    => res.kind = "none"

\* C4: from_vec fails with InvalidDataLength{expected = product(shape),
\* got = data.len()} exactly when the two differ, and otherwise returns a tensor
\* holding exactly the arguments; an empty shape has product 1 and a shape with
\* a 0 dimension has product 0.
C4_FromVec ==
    op = "from_vec" =>
        /\ res.kind \in {"ok", "err"}
        /\ res.kind = "err" <=> Len(args.data) # Product(args.shape)
        /\ res.kind = "err" =>
              res.val = InvalidDataLength(Product(args.shape), Len(args.data))
        /\ res.kind = "ok" =>
              /\ res.val.data = args.data
              /\ res.val.shape = args.shape
              /\ t = Some(res.val)
        /\ args.shape = <<>> => (res.kind = "ok" <=> Len(args.data) = 1)
        /\ (\E i \in 1..Len(args.shape) : args.shape[i] = 0) =>
              (res.kind = "ok" <=> args.data = <<>>)

C4_Witness ==
    /\ op = "from_vec"
    /\ args.shape = <<2, 0>>
    /\ args.data = <<1>>
    /\ res = Err(InvalidDataLength(0, 1))
    /\ t = None

\* C5: new() with zero rows fails with the EmptyTensor error value (no abort,
\* no tensor); with at least one row it returns the rank-2 tensor of shape
\* [rows, length of a row] holding the rows flattened in order.
C5_New ==
    op = "new" =>
        /\ Len(args.rows) = 0 => res = Err([error |-> "EmptyTensor"])
        /\ Len(args.rows) > 0 =>
              /\ res.kind = "ok"
              /\ res.val.shape = <<Len(args.rows), Len(args.rows[1])>>
              /\ res.val.data = Flatten(args.rows)

\* C6: get() on a (size-consistent) tensor with the right number of indices
\* but a component >= the size of its axis returns no element, hence never the
\* element of another cell.
C6_GetBoundsChecked ==
    (/\ op = "get"
     /\ Consistent(Self)
     /\ Len(args.indices) = Len(Self.shape)
     /\ \E i \in 1..Len(args.indices) : args.indices[i] >= Self.shape[i])
    => res.kind = "none"

\* C7: index() is absent exactly when the number of indices differs from the
\* rank, and otherwise is the row-major offset sum_i indices[i] * prod(shape[i+1..]).
C7_IndexRowMajor ==
    op = "index" =>
        /\ res.kind \in {"some", "none"}
        /\ res.kind = "none" <=> Len(args.indices) # Len(Self.shape)
        /\ res.kind = "some" => res.val = RowMajorOffset(args.indices, Self.shape, 1)
        /\ t = args.self

C7_Witness ==
    /\ op = "index"
    /\ Self.shape = <<1, 2>>
    /\ args.indices = <<1, 2>>
    /\ res = OptSome(4)

\* C8: for broadcast-compatible operands, on every axis where one operand has
\* size 1 the broadcast shape has the other operand's size (0 included).
C8_BroadcastShapeStretches ==
    (op = "broadcast_shape" /\ can_broadcast(Self, args.other)) =>
        /\ Len(res.val) = Len(Self.shape)
        /\ \A i \in 1..Len(res.val) :
              /\ Self.shape[i] = 1 => res.val[i] = args.other.shape[i]
              /\ args.other.shape[i] = 1 => res.val[i] = Self.shape[i]
              /\ Self.shape[i] \in {1, res.val[i]}
              /\ args.other.shape[i] \in {1, res.val[i]}

\* C9: can_broadcast and broadcast_shape give the same answer with the operands
\* swapped.
C9_BroadcastSymmetric ==
    /\ op = "can_broadcast" => res.val = can_broadcast(args.other, Self)
    /\ op = "broadcast_shape" => res.val = broadcast_shape(args.other, Self)

C9_Witness ==
    /\ op = "broadcast_shape"
    /\ Self.shape = <<1, 2>>
    /\ args.other.shape = <<2, 1>>
    /\ res.val = <<2, 2>>

SameShape(x, y) ==
    /\ Len(x.shape) = Len(y.shape)
    /\ \A i \in 1..Len(x.shape) : x.shape[i] = y.shape[i]

\* C10: chk_shape succeeds exactly when the two shapes are identical, fails
\* otherwise with InvalidShape{expected = self's shape, got = other's shape},
\* and leaves the receiver as it was.
C10_ChkShape ==
    op = "chk_shape" =>
        /\ res.kind \in {"ok", "err"}
        /\ res.kind = "ok" <=> SameShape(Self, args.other)
        /\ res.kind = "err" =>
              /\ res.val.error = "InvalidShape"
              /\ res.val.expected = Self.shape
              /\ res.val.got = args.other.shape
        /\ t = args.self

C10_Witness ==
    /\ op = "chk_shape"
    /\ Self.shape = <<1, 2>>
    /\ args.other.shape = <<1, 1>>
    /\ res = Err(InvalidShape(<<1, 2>>, <<1, 1>>))
\* C11: the ordering compares data and then shape: cmp is decided by the data
\* when they differ and by the shapes when the data are equal, so cmp is Equal
\* exactly when the two tensors are equal (data and shape).
C11_OrderDataThenShape ==
    op = "cmp" =>
        /\ Self.data # args.other.data =>
              res.val = VecCmp(Self.data, args.other.data)
        /\ Self.data = args.other.data =>
              res.val = VecCmp(Self.shape, args.other.shape)
        /\ res.val = "Equal" <=> eq(Self, args.other)
\* C12: every scalar operation on any tensor succeeds and returns a tensor of
\* the same shape whose i-th element is the scalar expression applied to the
\* i-th element (x+s, x-s, x*s, x/s, and reversed s-x, s/x); the tensor itself
\* is unchanged.
C12_ScalarOps ==
    op = "scalar_ops" =>
        /\ res.kind = "ok"
        /\ res.val.shape = Self.shape
        /\ Len(res.val.data) = Len(Self.data)
        /\ \A i \in 1..Len(Self.data) :
              LET x == Self.data[i]
                  s == args.scalar
              IN  res.val.data[i] =
                    CASE args.sop = "Add" -> x + s
                      [] args.sop = "Sub" -> x - s
                      [] args.sop = "Mul" -> x * s
                      [] args.sop = "Div" -> Quot(x, s)
                      [] args.sop = "buS" -> s - x
                      [] args.sop = "viD" -> Quot(s, x)
        /\ t = args.self
\* C15: for broadcast-compatible operands that both have data.len() ==
\* product(shape), broadcast_op does not fail: for every output index below
\* product(broadcast_shape) both offsets of calculate_broadcast_indices are
\* below the operands' data lengths, so nothing panics and a tensor is returned.
C15_BroadcastOpInBounds ==
    (/\ op = "broadcast_op"
     /\ can_broadcast(Self, args.other)
     /\ Consistent(Self)
     /\ Consistent(args.other))
    => LET shape == broadcast_shape(Self, args.other)
       IN  /\ \A idx \in 0..(Product(shape) - 1) :
                 LET r == calculate_broadcast_indices(Self, args.other, idx, shape)
                 IN  /\ r # None
                     /\ r[1][1] < Len(Self.data)
                     /\ r[1][2] < Len(args.other.data)
           /\ res.kind = "some"
Slots == {"data", "shape", "requires_grad", "power", "topk", "matmax"}

\* the call in progress left every slot outside `written` as it was
OnlyWrote(written) == \A f \in Slots \ written : t[1][f] = Self[f]

\* C14: after construction, every set_power / set_topk / set_matmax /
\* requires_grad call leaves shape and data unchanged and changes only its own
\* slot, which then holds the arguments.
C14_SettersFrame ==
    /\ op = "set_power" =>
          /\ t[1].power = Some(args.exponent)
          /\ OnlyWrote({"power"})
    /\ op = "set_topk" =>
          /\ t[1].topk = Some(<<args.k, args.sorted>>)
          /\ OnlyWrote({"topk"})
    /\ op = "set_matmax" =>
          /\ t[1].matmax = Some(<<args.dim, args.keepdim>>)
          /\ OnlyWrote({"matmax"})
    /\ op = "requires_grad" =>
          /\ t[1].requires_grad = args.requires
          /\ OnlyWrote({"requires_grad"})

C14_Witness ==
    /\ op = "set_matmax"
    /\ Self.shape = <<1, 2>>
    /\ Self.data = <<0, 1>>
    /\ Self.power = Some(3)
    /\ Self.topk = Some(<<1, TRUE>>)
    /\ Self.requires_grad
    /\ Self.matmax = Some(<<None, FALSE>>)
    /\ t[1].matmax = Some(<<Some(0), TRUE>>)
\* an instance holds every parameter its forward needs
Configured(o) ==
    /\ o.kind = "Pow" => o.power # None
    /\ o.kind = "Topk" => o.topk # None
    /\ o.kind = "Matmax" => o.matmax # None

\* C13 (as stated): an operation instance is either configured (constructed,
\* not yet forwarded) or consumed (forwarded once): forward runs at most once
\* and every instance returned by construction, Pow / Topk / Matmax included,
\* is already fully configured.
C13_TwoStates ==
    inst # None =>
        /\ inst[1].forwards <= 1
        /\ inst[1].forwards = 0 => Configured(inst[1].obj)

\* C13 (amended): forward runs at most once per instance and only on a fully
\* configured one; for Pow / Topk / Matmax the parameter it then holds is the
\* one the ops! invocation was written with, assigned after construction.
C13_ConfiguredAtForward ==
    inst # None =>
        /\ inst[1].forwards <= 1
        /\ inst[1].forwards = 1 <=> inst[1].pc = "forwarded"
        /\ inst[1].forwards = 1 =>
              /\ Configured(inst[1].obj)
              /\ inst[1].obj.kind = "Pow" => inst[1].obj.power = Some(args.param)
              /\ inst[1].obj.kind = "Topk" => inst[1].obj.topk = Some(args.param)
              /\ inst[1].obj.kind = "Matmax" => inst[1].obj.matmax = Some(args.param)
        /\ inst[1].obj.first = Self

C13_Witness ==
    /\ inst # None
    /\ inst[1].obj.kind = "Topk"
    /\ inst[1].forwards = 1
    /\ inst[1].obj.topk = Some(<<1, TRUE>>)
    /\ res.kind = "forwarded"

====
